---- MODULE Spec2Model ----
(***************************************************************************)
(* XataHandler (mindsdb/integrations/handlers/xata_handler/xata_handler.py) *)
(* as a state machine: the handler's fields, one action per public method,  *)
(* and the backend client as an opaque collaborator whose every call either *)
(* returns a successful response, returns an unsuccessful response, or      *)
(* raises.                                                                  *)
(***************************************************************************)
EXTENDS Integers, Sequences, FiniteSets, TLC

VARIABLES
    connection_data,      \* self._connection_data (dict)
    client_config,        \* self._client_config
    create_table_params,  \* self._create_table_params
    client,               \* self._client: NoClient (None) or a handle id
    is_connected,         \* self.is_connected
    constructions,        \* number of xata.XataClient(...) constructor calls so far
    last                  \* the most recent public call: its inputs, the backend
                          \* calls it issued (in order) and how it ended

vars == <<connection_data, client_config, create_table_params, client,
          is_connected, constructions, last>>

config == <<connection_data, client_config, create_table_params>>
connection == <<client, is_connected, constructions>>

----------------------------------------------------------------------------
(* Bounds *)

MaxHandles == 2     \* XataClient constructions per behaviour
MaxConds == 2       \* length of a condition list
MaxCols == 2        \* length of a column list
MaxRows == 1        \* rows in a backend read response
MaxBatch == 2       \* rows in an insert batch

----------------------------------------------------------------------------
(* Python values *)

\* Optional[T]: None is the empty tuple, a present value x is <<x>>.
None == <<>>
Some(x) == <<x>>
IsNone(o) == Len(o) = 0
Get(o) == o[1]

\* Dynamically typed scalars of the connection settings.
PyNone == [kind |-> "none", int |-> 0, str |-> ""]
PyInt(n) == [kind |-> "int", int |-> n, str |-> ""]
PyStr(s) == [kind |-> "str", int |-> 0, str |-> s]

\* dict.get(key, default)
DictGet(d, k, default) == IF k \in DOMAIN d THEN d[k] ELSE default

\* x in list
InList(x, list) == \E i \in 1..Len(list) : list[i] = x

\* [f(x) for x in list if p(x)] with f the identity
RECURSIVE Filter(_, _)
Filter(list, keep) ==
    IF Len(list) = 0 THEN <<>>
    ELSE (IF keep[Head(list)] THEN <<Head(list)>> ELSE <<>>) \o Filter(Tail(list), keep)

\* All tuples over S of length at most n.
SeqsUpTo(S, n) == UNION {[1..k -> S] : k \in 0..n}

----------------------------------------------------------------------------
(* TableField column names and handler responses *)

TableField == [ID |-> "id", CONTENT |-> "content", EMBEDDINGS |-> "embeddings",
               METADATA |-> "metadata", SEARCH_VECTOR |-> "search_vector",
               DISTANCE |-> "distance"]

\* HandlerResponse(resp_type, data_frame=None, error_message=None).  A message is
\* the tuple of the fragments an f-string concatenates.
Response(resp_type, data_frame, error_message) ==
    [resp_type |-> resp_type, data_frame |-> data_frame, error_message |-> error_message]
ResponseOK == Response("OK", None, None)
ResponseError(message) == Response("ERROR", None, Some(message))
ResponseTable(df) == Response("TABLE", Some(df), None)

\* How a public call ends.
Returned(value) == [status |-> "returned", value |-> value]
Raised(type, message) == [status |-> "raised", exc_type |-> type, message |-> message]

----------------------------------------------------------------------------
(* The backend client *)

NoClient == 0

\* What one call through self._client can do.  With the handle absent the
\* attribute lookup on None raises before anything reaches the backend.
CallOutcomes == IF client = NoClient THEN {"raise"} ELSE {"ok", "unsuccessful", "raise"}
RaiseOutcomes == IF client = NoClient THEN {"raise"} ELSE {"ok", "raise"}

\* str(e) of the exception a call through self._client raises.
Cause(attr) ==
    IF client = NoClient
    THEN <<"'NoneType' object has no attribute '", attr, "'">>
    ELSE <<"backend error">>
CauseType == IF client = NoClient THEN "AttributeError" ELSE "Exception"

\* resp["message"] of an unsuccessful response.
RespMessage == <<"backend message">>

Call(api, args, outcome) == [api |-> api, args |-> args, outcome |-> outcome]

\* The caller: one public call at a time (spec section 5); `last` holds the
\* call's record until the caller has taken the result.
NoCall == [op |-> "none"]
Ready == last.op = "none"

----------------------------------------------------------------------------
(* Construction *)

DefaultDimension == 8

Urls == {"https://a.xata.sh/db/docs"}
ApiKeys == {"xau_key"}
Dimensions == {16}

\* connection_data dicts: api_key always given, db_url and dimension given or not.
ConnectionDatas ==
    { [k \in dom |-> CASE k = "db_url" -> PyStr(u)
                       [] k = "api_key" -> PyStr(a)
                       [] k = "dimension" -> PyInt(d)] :
        dom \in {{"api_key"} \cup s : s \in SUBSET {"db_url", "dimension"}},
        u \in Urls, a \in ApiKeys, d \in Dimensions }

ClientConfig(cd) ==
    [db_url |-> DictGet(cd, "db_url", PyNone), api_key |-> DictGet(cd, "api_key", PyNone)]

CreateTableParams(cd) ==
    [dimension |-> DictGet(cd, "db_url", PyInt(DefaultDimension))]

----------------------------------------------------------------------------
(* connect / disconnect / check_connection *)

\* line 48: the early return of connect()
ConnectEarlyReturnMutant == FALSE
ConnectEarlyReturn == is_connected = TRUE

\* lines 51-56: the body of connect() after the early return; ok says whether
\* xata.XataClient(**self._client_config) returned or raised.
ConnectBody(ok) ==
    /\ constructions' = constructions + 1
    /\ IF ok
       THEN /\ client' = constructions'
            /\ is_connected' = TRUE
       ELSE /\ client' = client
            /\ is_connected' = FALSE

ConnectResult(ok) == IF ok THEN client' ELSE NoClient

Connect ==
    /\ Ready
    /\ UNCHANGED config
    /\ IF ConnectEarlyReturn
       THEN /\ UNCHANGED connection
            /\ last' = [op |-> "connect",
                        pre |-> [client |-> client, is_connected |-> is_connected,
                                 constructions |-> constructions],
                        returned |-> client]
       ELSE /\ constructions < MaxHandles
            /\ \E ok \in BOOLEAN :
                 /\ ConnectBody(ok)
                 /\ last' = [op |-> "connect",
                             pre |-> [client |-> client, is_connected |-> is_connected,
                                      constructions |-> constructions],
                             returned |-> ConnectResult(ok)]

\* lines 60-63, as the new (client, is_connected)
DisconnectLeakMutant == IF is_connected = FALSE THEN <<client, is_connected>>
                        ELSE <<NoClient, TRUE>>
DisconnectEffect == IF is_connected = FALSE THEN <<client, is_connected>>
                    ELSE <<NoClient, FALSE>>

Disconnect ==
    /\ Ready
    /\ client' = DisconnectEffect[1]
    /\ is_connected' = DisconnectEffect[2]
    /\ UNCHANGED <<constructions, config>>
    /\ last' = [op |-> "disconnect",
                pre |-> [client |-> client, is_connected |-> is_connected]]

\* lines 77-81: the finally block of check_connection, as the new
\* (client, is_connected); disconnect() runs first when the probe succeeded on
\* a handler that was not connected.
CheckFinally(success, need_to_close) ==
    LET afterClose == IF success /\ need_to_close THEN DisconnectEffect
                      ELSE <<client, is_connected>>
    IN  IF ~success /\ afterClose[2] = TRUE THEN <<afterClose[1], FALSE>> ELSE afterClose

CheckConnection ==
    /\ Ready
    /\ \E probe \in CallOutcomes :
        LET need_to_close == is_connected = FALSE
            \* users().get() is only required not to raise
            success == probe # "raise"
            after == CheckFinally(success, need_to_close)
        IN  /\ client' = after[1]
            /\ is_connected' = after[2]
            /\ UNCHANGED <<constructions, config>>
            /\ last' = [op |-> "check_connection",
                        pre |-> [client |-> client, is_connected |-> is_connected],
                        calls |-> <<Call("users.get", <<>>, probe)>>,
                        returned |-> [success |-> success,
                                      error_message |-> IF success THEN None
                                                        ELSE Some(Cause("users"))]]

----------------------------------------------------------------------------
(* create_table / drop_table / get_columns / get_tables *)

TableNames == {"docs", "notes"}

\* pd.DataFrame: column names in order, and one list per column
DataFrame(columns, data) == [columns |-> columns, data |-> data]

\* lines 90-100: the schema payload of set_schema
SchemaPayload ==
    [columns |-> <<
        [name |-> "embeddings", type |-> "vector",
         vector |-> Some([dimension |-> create_table_params["dimension"]])],
        [name |-> "content", type |-> "text", vector |-> None],
        [name |-> "metadata", type |-> "json", vector |-> None] >>]

\* lines 86-101: the backend calls of create_table, in order.  Only a raise
\* leaves the try block; a returned response is not inspected.
CreateTableCalls(table_name, o1, o2) ==
    <<Call("table.create", [table_name |-> table_name], o1)>> \o
    (IF o1 = "raise" THEN <<>>
     ELSE <<Call("table.set_schema",
                 [table_name |-> table_name, payload |-> SchemaPayload], o2)>>)

\* Did the try block of an operation end in the except clause?
RaisedIn(calls) == calls[Len(calls)].outcome = "raise"

CreateTable ==
    /\ Ready
    /\ \E table_name \in TableNames, o1 \in CallOutcomes, o2 \in CallOutcomes :
        LET calls == CreateTableCalls(table_name, o1, o2)
        IN  /\ last' = [op |-> "create_table", table_name |-> table_name,
                        calls |-> calls,
                        result |-> IF RaisedIn(calls)
                                   THEN Returned(ResponseError(
                                            <<"Unable to create table '", table_name, "': ">>
                                            \o Cause("table")))
                                   ELSE Returned(ResponseOK)]
            /\ UNCHANGED <<connection, config>>

DropTable ==
    /\ Ready
    /\ \E table_name \in TableNames, o \in CallOutcomes :
        LET calls == <<Call("table.delete", [table_name |-> table_name], o)>>
        IN  /\ last' = [op |-> "drop_table", table_name |-> table_name,
                        calls |-> calls,
                        result |-> IF RaisedIn(calls)
                                   THEN Returned(ResponseError(
                                            <<"Error deleting table '", table_name, "': ">>
                                            \o Cause("table")))
                                   ELSE Returned(ResponseOK)]
            /\ UNCHANGED <<connection, config>>

\* VectorStoreHandler.get_columns: the fixed schema description
VectorStoreGetColumns(table_name) ==
    ResponseTable(DataFrame(<<"Field", "Type">>,
                            << <<"embeddings", "content", "metadata">>,
                               <<"vector", "text", "json">> >>))

GetColumns ==
    /\ Ready
    /\ \E table_name \in TableNames, o \in CallOutcomes :
        LET calls == <<Call("table.get_columns", [table_name |-> table_name], o)>>
        IN  /\ last' = [op |-> "get_columns", table_name |-> table_name,
                        calls |-> calls,
                        result |->
                            CASE o = "raise" ->
                                    Returned(ResponseError(Cause("table")))
                              [] o = "unsuccessful" ->
                                    Returned(ResponseError(
                                        <<"Error getting columns: ">> \o RespMessage))
                              [] OTHER ->
                                    Returned(VectorStoreGetColumns(table_name))]
            /\ UNCHANGED <<connection, config>>

\* line 140: get_details()["schema"]["tables"]; an unsuccessful response
\* carries no "schema" key, so the subscript raises KeyError inside the try.
GetTables ==
    /\ Ready
    /\ \E o \in CallOutcomes, names \in SeqsUpTo(TableNames, 1) :
        LET calls == <<Call("branch.get_details", <<>>, o)>>
        IN  /\ last' = [op |-> "get_tables",
                        calls |-> calls,
                        result |->
                            CASE o = "raise" ->
                                    Returned(ResponseError(
                                        <<"Error getting list of tables: ">>
                                        \o Cause("branch")))
                              [] o = "unsuccessful" ->
                                    Returned(ResponseError(
                                        <<"Error getting list of tables: ", "'schema'">>))
                              [] OTHER ->
                                    Returned(ResponseTable(
                                        DataFrame(<<"TABLE_NAME">>, <<names>>)))]
            /\ UNCHANGED <<connection, config>>

----------------------------------------------------------------------------
(* Filter conditions *)

\* FilterCondition(column, op, value)
CondColumns == {TableField.ID, TableField.METADATA, TableField.SEARCH_VECTOR}
Conditions ==
    [column : {TableField.ID}, op : {"="}, value : {1, 2}]
    \cup [column : CondColumns \ {TableField.ID}, op : {"="}, value : {1}]
OptConditionLists == {None} \cup {Some(l) : l \in SeqsUpTo(Conditions, MaxConds)}

\* VectorStoreHandler._translate_metadata_condition: the conjunction of the
\* conditions on non-reserved columns, absent when there is none.
TranslateMetadataCondition(conditions) ==
    IF IsNone(conditions) THEN None
    ELSE LET kept == Filter(Get(conditions),
                            [c \in Conditions |->
                                c.column \notin {TableField.SEARCH_VECTOR, TableField.ID}])
         IN  IF Len(kept) = 0 THEN None ELSE Some(kept)

\* lines 228-240: the first condition on the search-vector column, or None
VectorFilterMutant(conditions) ==
    IF IsNone(conditions) THEN None
    ELSE LET found == Filter(Get(conditions),
                             [c \in Conditions |-> c.column = TableField.EMBEDDINGS])
         IN  IF Len(found) > 0 THEN Some(found[1]) ELSE None
VectorFilter(conditions) ==
    IF IsNone(conditions) THEN None
    ELSE LET found == Filter(Get(conditions),
                             [c \in Conditions |-> c.column = TableField.SEARCH_VECTOR])
         IN  IF Len(found) > 0 THEN Some(found[1]) ELSE None

\* lines 243-247 and 313-317: [c.value for c in conditions if c.column == "id"] or None
IdFilters(conditions) ==
    LET found == Filter(conditions, [c \in Conditions |-> c.column = TableField.ID])
    IN  IF Len(found) = 0 THEN None
        ELSE Some([i \in 1..Len(found) |-> found[i].value])

----------------------------------------------------------------------------
(* select *)

\* An insertion-ordered dict as a tuple of <<key, value>> pairs.
DictHas(d, k) == \E i \in 1..Len(d) : d[i][1] = k
DictAt(d, k) == d[CHOOSE i \in 1..Len(d) : d[i][1] = k][2]
DictPut(d, k, v) ==
    IF DictHas(d, k)
    THEN [i \in 1..Len(d) |-> IF d[i][1] = k THEN <<k, v>> ELSE d[i]]
    ELSE Append(d, <<k, v>>)
DictKeys(d) == [i \in 1..Len(d) |-> d[i][1]]
DictValues(d) == [i \in 1..Len(d) |-> d[i][2]]

SelectColumnNames == {TableField.ID, TableField.CONTENT, TableField.EMBEDDINGS,
                      TableField.DISTANCE}
OptColumnLists == {None} \cup {Some(l) : l \in SeqsUpTo(SelectColumnNames, MaxCols)}
Limits == {None, Some(5)}
Offsets == {None, Some(1)}

\* The lists of a backend read response with n rows, in the backend's order.
RespIds(n) == [i \in 1..n |-> i]
RespDocuments(n) == [i \in 1..n |-> 10 + i]
RespMetadatas(n) == [i \in 1..n |-> 20 + i]
RespDistances(n) == [i \in 1..n |-> 30 + i]

\* lines 249-277: the one read select issues
SelectRead(conditions, offset, limit, outcome) ==
    LET filters == TranslateMetadataCondition(conditions)
        vector_filter == VectorFilter(conditions)
        id_filters == IF IsNone(conditions) THEN None ELSE IdFilters(Get(conditions))
    IN  IF ~IsNone(vector_filter)
        THEN \* lines 258-259: n_results is passed only when a limit is given
             IF ~IsNone(limit)
             THEN Call("collection.query",
                       [where |-> filters,
                        query_embeddings |-> Get(vector_filter).value,
                        include |-> <<"metadatas", "documents", "distances">>,
                        n_results |-> Get(limit)],
                       outcome)
             ELSE Call("collection.query",
                       [where |-> filters,
                        query_embeddings |-> Get(vector_filter).value,
                        include |-> <<"metadatas", "documents", "distances">>],
                       outcome)
        ELSE Call("collection.get",
                  [ids |-> id_filters, where |-> filters, limit |-> limit,
                   offset |-> offset],
                  outcome)

\* lines 262-265 and 274-277: distances of the response, None for a plain get
SelectDistances(read, n) ==
    IF read.api = "collection.query" THEN Some(RespDistances(n)) ELSE None

\* lines 280-284
SelectPayload(n) ==
    << <<TableField.ID, RespIds(n)>>,
       <<TableField.CONTENT, RespDocuments(n)>>,
       <<TableField.METADATA, RespMetadatas(n)>> >>

\* lines 287-291: the first column whose lookup payload[column] raises KeyError
RECURSIVE ProjectionKeyError(_, _)
ProjectionKeyError(payload, columns) ==
    IF Len(columns) = 0 THEN None
    ELSE IF Head(columns) # TableField.EMBEDDINGS /\ ~DictHas(payload, Head(columns))
         THEN Some(Head(columns))
         ELSE ProjectionKeyError(payload, Tail(columns))

\* lines 287-291: the dict comprehension, keys in order of first occurrence
RECURSIVE Projection(_, _, _)
Projection(payload, columns, acc) ==
    IF Len(columns) = 0 THEN acc
    ELSE Projection(payload, Tail(columns),
                    IF Head(columns) = TableField.EMBEDDINGS THEN acc
                    ELSE DictPut(acc, Head(columns), DictAt(payload, Head(columns))))

\* lines 279-297: projection, distance and the data frame
SelectResult(columns, distances, n) ==
    LET full == SelectPayload(n)
        keyError == IF IsNone(columns) THEN None
                    ELSE ProjectionKeyError(full, Get(columns))
    IN  IF ~IsNone(keyError) THEN Raised("KeyError", <<Get(keyError)>>)
        ELSE LET projected == IF IsNone(columns) THEN full
                              ELSE Projection(full, Get(columns), <<>>)
                 payload == IF ~IsNone(distances)
                            THEN DictPut(projected, TableField.DISTANCE, Get(distances))
                            ELSE projected
             IN  Returned(ResponseTable(DataFrame(DictKeys(payload), DictValues(payload))))

\* lines 217-297.  oc: self._client.get_collection returned or raised; orr: the
\* read returned or raised; n: the number of rows the read returned.
SelectRun(table_name, columns, conditions, offset, limit, oc, orr, n) ==
    LET lookup == Call("get_collection", [table_name |-> table_name], oc)
        read == SelectRead(conditions, offset, limit, orr)
    IN  IF oc = "raise"
        THEN [calls |-> <<lookup>>,
              result |-> Raised(CauseType, Cause("get_collection"))]
        ELSE IF orr = "raise"
        THEN [calls |-> <<lookup, read>>,
              result |-> Raised("Exception", <<"backend error">>)]
        ELSE [calls |-> <<lookup, read>>,
              result |-> SelectResult(columns, SelectDistances(read, n), n)]

Select ==
    /\ Ready
    /\ \E table_name \in TableNames, columns \in OptColumnLists,
          conditions \in OptConditionLists, offset \in Offsets, limit \in Limits,
          oc \in RaiseOutcomes, orr \in {"ok", "raise"}, n \in 0..MaxRows :
        LET run == SelectRun(table_name, columns, conditions, offset, limit, oc, orr, n)
        IN  /\ last' = [op |-> "select", table_name |-> table_name,
                        columns |-> columns, conditions |-> conditions,
                        calls |-> run.calls, result |-> run.result]
            /\ UNCHANGED <<connection, config>>

----------------------------------------------------------------------------
(* delete *)

\* line 319
DeleteNoConditionMutant(filters, id_filters) == IsNone(filters) /\ ~IsNone(id_filters)
DeleteNoCondition(filters, id_filters) == IsNone(filters) /\ IsNone(id_filters)

\* lines 308-323.  oc: get_collection returned or raised; od: collection.delete
\* returned or raised.
DeleteRun(table_name, conditions, oc, od) ==
    LET filters == TranslateMetadataCondition(conditions)
    IN  IF IsNone(conditions)
        THEN \* line 315: iterating None
             [calls |-> <<>>,
              result |-> Raised("TypeError", <<"'NoneType' object is not iterable">>)]
        ELSE
        LET id_filters == IdFilters(Get(conditions))
            lookup == Call("get_collection", [table_name |-> table_name], oc)
            delete == Call("collection.delete",
                           [ids |-> id_filters, where |-> filters], od)
        IN  IF DeleteNoCondition(filters, id_filters)
            THEN [calls |-> <<>>,
                  result |-> Raised("Exception",
                                    <<"Delete query must have at least one condition!">>)]
            ELSE IF oc = "raise"
            THEN [calls |-> <<lookup>>,
                  result |-> Raised(CauseType, Cause("get_collection"))]
            ELSE IF od = "raise"
            THEN [calls |-> <<lookup, delete>>,
                  result |-> Raised("Exception", <<"backend error">>)]
            ELSE [calls |-> <<lookup, delete>>, result |-> Returned(ResponseOK)]

Delete ==
    /\ Ready
    /\ \E table_name \in TableNames, conditions \in OptConditionLists,
          oc \in RaiseOutcomes, od \in {"ok", "raise"} :
        LET run == DeleteRun(table_name, conditions, oc, od)
        IN  /\ last' = [op |-> "delete", table_name |-> table_name,
                        conditions |-> conditions,
                        calls |-> run.calls, result |-> run.result]
            /\ UNCHANGED <<connection, config>>

----------------------------------------------------------------------------
(* insert *)

RecordIds == <<"rec_1", "rec_2", "rec_3", "rec_4">>
MetadataWire == "{\"k\": 1}"

\* The input frames: which columns the frame has, and how many rows.
InsertFrameColumns == { <<"content">>, <<"id", "content">>,
                        <<"content", "metadata">>, <<"id", "content", "metadata">> }
InsertFrames == [columns : InsertFrameColumns, nrows : 0..MaxBatch]
OptInsertColumns == {None, Some(<<"content">>), Some(<<"id", "content">>)}

FrameCell(column, i) ==
    CASE column = "id" -> RecordIds[i]
      [] column = "content" -> "text"
      [] column = "metadata" -> MetadataWire

\* line 155: DataFrame.to_dict("records"), a list with one dict per row
ToDictRecords(df) ==
    [i \in 1..df.nrows |->
        [c \in {df.columns[j] : j \in 1..Len(df.columns)} |-> FrameCell(c, i)]]

\* The attributes of a Python list (what `data` is after line 155).
ListAttributes == {"append", "clear", "copy", "count", "extend", "index",
                   "insert", "pop", "remove", "reverse", "sort"}

\* lines 173-192: one row, the row carries an id
InsertWithId(table_name, row, columns, o) ==
    LET rest_of_data == [c \in DOMAIN row \ {"id"} |-> row[c]]
        call == Call("records.insert_with_id",
                     [table_name |-> table_name, record_id |-> row["id"],
                      payload |-> rest_of_data, create_only |-> TRUE,
                      columns |-> columns], o)
    IN  [calls |-> <<call>>,
         result |->
            CASE o = "raise" ->
                    Returned(ResponseError(
                        <<"Error inserting data into '", table_name, "': ">>
                        \o Cause("records")))
              [] o = "unsuccessful" ->
                    Returned(ResponseError(
                        <<"Error inserting data into '", table_name, "': ">>
                        \o RespMessage))
              [] OTHER -> Returned(ResponseOK)]

\* lines 193-207: one row, no id
InsertWithoutId(table_name, row, columns, o) ==
    LET call == Call("records.insert",
                     [table_name |-> table_name, payload |-> row, columns |-> columns], o)
    IN  [calls |-> <<call>>,
         result |->
            CASE o = "raise" ->
                    Returned(ResponseError(
                        <<"Error inserting data into '", table_name, "': ">>
                        \o Cause("records")))
              [] o = "unsuccessful" ->
                    Returned(ResponseError(
                        <<"Error inserting data into '", table_name, "': ">>
                        \o RespMessage))
              [] OTHER -> Returned(ResponseOK)]

\* lines 159-169: more than one row; o1 is put_records, o2 is flush_queue
InsertBulk(table_name, data, o1, o2) ==
    LET put == Call("bulk.put_records", [table_name |-> table_name, records |-> data], o1)
        flush == Call("bulk.flush_queue", <<>>, o2)
        calls == IF o1 = "raise" THEN <<put>> ELSE <<put, flush>>
    IN  [calls |-> calls,
         result |-> IF RaisedIn(calls)
                    THEN Returned(ResponseError(
                             <<"Error inserting data into '", table_name, "': ">>
                             \o <<"backend error">>))
                    ELSE Returned(ResponseOK)]

\* lines 159-208: the choice of path
InsertDispatch(table_name, data, columns, o1, o2) ==
    IF Len(data) > 1 THEN InsertBulk(table_name, data, o1, o2)
    ELSE IF Len(data) = 0 THEN [calls |-> <<>>, result |-> Returned(ResponseOK)]
    ELSE IF "id" \in DOMAIN data[1]
    THEN \* line 173: `TableField.ID.value in columns`, evaluated only when
         \* the row has an id; columns=None is not iterable
         IF IsNone(columns)
         THEN [calls |-> <<>>,
               result |-> Raised("TypeError",
                                 <<"argument of type 'NoneType' is not iterable">>)]
         ELSE IF InList(TableField.ID, Get(columns))
         THEN InsertWithId(table_name, data[1], columns, o1)
         ELSE InsertWithoutId(table_name, data[1], columns, o1)
    ELSE InsertWithoutId(table_name, data[1], columns, o1)

\* lines 157-158 on the list line 155 produced: `data.columns` is an attribute
\* lookup on a list, which raises AttributeError for every list.
LoadMetadata(data) ==
    IF "columns" \notin ListAttributes
    THEN Raised("AttributeError", <<"'list' object has no attribute 'columns'">>)
    ELSE Returned(data)

\* lines 152-208.  Line 157 reads data.columns after line 155 has replaced the
\* frame by a list: the attribute lookup raises before any path is chosen.
InsertRun(table_name, df, columns, o1, o2) ==
    LET data == ToDictRecords(df)
        loaded == LoadMetadata(data)
    IN  IF loaded.status = "raised"
        THEN [calls |-> <<>>, result |-> loaded]
        ELSE InsertDispatch(table_name, loaded.value, columns, o1, o2)

Insert ==
    /\ Ready
    /\ \E table_name \in TableNames, df \in InsertFrames, columns \in OptInsertColumns,
          o1 \in CallOutcomes, o2 \in CallOutcomes :
        LET run == InsertRun(table_name, df, columns, o1, o2)
        IN  /\ last' = [op |-> "insert", table_name |-> table_name,
                        data |-> df, columns |-> columns,
                        calls |-> run.calls, result |-> run.result]
            /\ UNCHANGED <<connection, config>>

----------------------------------------------------------------------------
Init ==
    /\ connection_data \in ConnectionDatas
    /\ client_config = ClientConfig(connection_data)
    /\ create_table_params = CreateTableParams(connection_data)
    \* __init__ ends with self.connect() on (None, False)
    /\ constructions = 1
    /\ \E ok \in BOOLEAN :
          /\ client = (IF ok THEN 1 ELSE NoClient)
          /\ is_connected = ok
    /\ last = NoCall

\* The caller takes the result; the handler awaits the next call.
Return ==
    /\ ~Ready
    /\ last' = NoCall
    /\ UNCHANGED <<connection, config>>

Next ==
    \/ Connect
    \/ Disconnect
    \/ CheckConnection
    \/ CreateTable
    \/ DropTable
    \/ GetColumns
    \/ GetTables
    \/ Insert
    \/ Select
    \/ Delete
    \/ Return

Spec == Init /\ [][Next]_vars

\* The connection and provisioning methods alone.
NextAdmin ==
    \/ Connect
    \/ Disconnect
    \/ CheckConnection
    \/ CreateTable
    \/ DropTable
    \/ GetColumns
    \/ GetTables
    \/ Return

SpecAdmin == Init /\ [][NextAdmin]_vars

\* The data methods alone.  They read self._client and write no field, and
\* Init leaves the handle both present and absent.
NextData ==
    \/ Select
    \/ Delete
    \/ Insert
    \/ Return

SpecData == Init /\ [][NextData]_vars

----------------------------------------------------------------------------
(* Properties *)

CallsOf(api) == {i \in 1..Len(last.calls) : last.calls[i].api = api}
ReturnedError == last.result.status = "returned" /\ last.result.value.resp_type = "ERROR"
ErrorMessage == Get(last.result.value.error_message)
ReturnedFrame == Get(last.result.value.data_frame)

TableOps == {"create_table", "drop_table", "get_columns", "get_tables",
             "insert", "select", "delete"}
UsageMessage == <<"Delete query must have at least one condition!">>
IsUsageError == /\ last.op = "delete"
                /\ last.result.status = "raised"
                /\ last.result.message = UsageMessage
BackendRaised == \E i \in 1..Len(last.calls) : last.calls[i].outcome = "raise"
CarriesCause(message) ==
    \/ InList("backend error", message)
    \/ InList("'NoneType' object has no attribute '", message)

\* C1: in every table operation a failure raised by the backend client is
\* returned as an error result carrying the table name and the cause, and the
\* only exception that leaves the handler is the usage error of a delete
\* without condition.
C1_BackendFailuresAreReturned ==
    last.op \in TableOps =>
        /\ (last.result.status = "raised" => IsUsageError)
        /\ (BackendRaised =>
                /\ ReturnedError
                /\ CarriesCause(ErrorMessage)
                /\ (last.op # "get_tables" => InList(last.table_name, ErrorMessage)))

InsertApis == [i \in 1..Len(last.calls) |-> last.calls[i].api]
InsertRowHasId == InList("id", last.data.columns)
InsertIdDeclared == ~IsNone(last.columns) /\ InList("id", Get(last.columns))

\* C2: insert picks its path from the input shape alone: more than one row is
\* the bulk path (put then one flush, no single-record call), no row returns
\* success without a backend call, one row with an id that is among the
\* declared columns is insert_with_id in create-only mode, one row otherwise
\* is the id-less insert.
C2_InsertPathByShape ==
    last.op = "insert" =>
        /\ (last.data.nrows > 1 =>
                /\ Len(last.calls) >= 1
                /\ InsertApis \in {<<"bulk.put_records">>,
                                   <<"bulk.put_records", "bulk.flush_queue">>})
        /\ (last.data.nrows = 0 =>
                /\ last.calls = <<>>
                /\ last.result = Returned(ResponseOK))
        /\ (last.data.nrows = 1 /\ InsertRowHasId /\ InsertIdDeclared =>
                /\ InsertApis = <<"records.insert_with_id">>
                /\ last.calls[1].args.create_only = TRUE)
        /\ (last.data.nrows = 1 /\ ~(InsertRowHasId /\ InsertIdDeclared) =>
                InsertApis = <<"records.insert">>)

DeleteHasIdCondition ==
    \E i \in 1..Len(Get(last.conditions)) :
        Get(last.conditions)[i].column = TableField.ID
DeleteHasMetadataCondition ==
    \E i \in 1..Len(Get(last.conditions)) :
        Get(last.conditions)[i].column \notin {TableField.ID, TableField.SEARCH_VECTOR}

\* C3: a delete whose condition list yields neither an id filter nor a
\* metadata filter raises the usage error and issues no backend call; the
\* backend delete is issued only when one of the two filters is present, and
\* then exactly once, with both the id filter and the metadata filter.
C3_DeleteNeedsCondition ==
    last.op = "delete" /\ ~IsNone(last.conditions) =>
        /\ (~DeleteHasIdCondition /\ ~DeleteHasMetadataCondition =>
                IsUsageError /\ last.calls = <<>>)
        /\ (CallsOf("collection.delete") # {} =>
                /\ DeleteHasIdCondition \/ DeleteHasMetadataCondition
                /\ Cardinality(CallsOf("collection.delete")) = 1
                /\ \A i \in CallsOf("collection.delete") :
                      /\ IsNone(last.calls[i].args.ids) <=> ~DeleteHasIdCondition
                      /\ IsNone(last.calls[i].args.where) <=> ~DeleteHasMetadataCondition
                      /\ \A j \in 1..Len(Get(last.conditions)) :
                            LET c == Get(last.conditions)[j]
                            IN  IF c.column = TableField.ID
                                THEN InList(c.value, Get(last.calls[i].args.ids))
                                ELSE c.column # TableField.SEARCH_VECTOR =>
                                        InList(c, Get(last.calls[i].args.where)))

C3_Witness ==
    /\ last.op = "delete"
    /\ last.conditions = Some(<<>>)
    /\ IsUsageError
    /\ last.calls = <<>>

SelectHasVectorCondition ==
    /\ ~IsNone(last.conditions)
    /\ \E i \in 1..Len(Get(last.conditions)) :
          Get(last.conditions)[i].column = TableField.SEARCH_VECTOR
SelectReads == CallsOf("collection.query") \cup CallsOf("collection.get")
SelectReturned == last.result.status = "returned"
SelectRouting ==
    /\ CallsOf("collection.query") # {} => SelectHasVectorCondition
    /\ CallsOf("collection.get") # {} => ~SelectHasVectorCondition
    /\ SelectReturned =>
          (InList(TableField.DISTANCE, ReturnedFrame.columns)
              <=> CallsOf("collection.query") # {})

\* C4 as stated: every select issues exactly one backend read, the similarity
\* query iff a condition is on the search-vector column, and the rows carry a
\* distance iff the similarity query ran.
C4_ExactlyOneRead ==
    last.op = "select" =>
        /\ Cardinality(SelectReads) = 1
        /\ SelectRouting

\* C4 amended: every select issues at most one backend read, and exactly one
\* when the collection lookup on the client returned; the read is the
\* similarity query iff a condition is on the search-vector column, and a
\* returned result carries a distance iff the similarity query ran; when the
\* lookup raised, select raises and no read is issued.
C4_OneReadAfterLookup ==
    last.op = "select" =>
        /\ Cardinality(SelectReads) <= 1
        /\ (last.calls[1].outcome = "ok" <=> Cardinality(SelectReads) = 1)
        /\ (last.calls[1].outcome = "raise" =>
                last.result.status = "raised" /\ Len(last.calls) = 1)
        /\ SelectRouting

C4_Witness ==
    /\ last.op = "select"
    /\ SelectHasVectorCondition
    /\ Cardinality(CallsOf("collection.query")) = 1
    /\ CallsOf("collection.get") = {}
    /\ SelectReturned
    /\ InList(TableField.DISTANCE, ReturnedFrame.columns)
    /\ Len(ReturnedFrame.data[1]) > 0

FirstIndex(list, x) == CHOOSE i \in 1..Len(list) : list[i] = x /\ \A j \in 1..(i-1) : list[j] # x

\* C5: a select with a column list whose read returned does not fail, whatever
\* the columns; its result has the requested columns in the requested order
\* without the embeddings column, and the distance column whenever the
\* similarity query ran.
C5_ProjectionNeverFails ==
    (/\ last.op = "select"
     /\ ~IsNone(last.columns)
     /\ Len(last.calls) = 2
     /\ last.calls[2].outcome = "ok") =>
        /\ SelectReturned
        /\ LET requested == Get(last.columns)
               got == ReturnedFrame.columns
           IN  /\ ~InList(TableField.EMBEDDINGS, got)
               /\ \A i \in 1..Len(requested) :
                     requested[i] # TableField.EMBEDDINGS => InList(requested[i], got)
               /\ \A i \in 1..Len(got) :
                     got[i] # TableField.DISTANCE => InList(got[i], requested)
               /\ \A i, j \in 1..Len(got) :
                     (i < j /\ InList(got[i], requested) /\ InList(got[j], requested))
                        => FirstIndex(requested, got[i]) < FirstIndex(requested, got[j])
               /\ (CallsOf("collection.query") # {} => InList(TableField.DISTANCE, got))

\* The probe succeeded when users().get() returned a successful response; it
\* failed when the call raised or returned an unsuccessful response.
ProbeSucceeded == last.calls[1].outcome = "ok"

\* C6: after check_connection, for every prior state and every probe outcome,
\* the handler is connected iff it was connected before and the probe
\* succeeded, and the returned status reports success exactly when the probe
\* succeeded.
C6_CheckConnectionState ==
    last.op = "check_connection" =>
        /\ is_connected <=> (last.pre.is_connected /\ ProbeSucceeded)
        /\ last.returned.success <=> ProbeSucceeded

\* C7: connect() on a connected handler returns the existing handle,
\* constructs no client and changes neither the handle nor is_connected.
C7_ConnectIdempotent ==
    last.op = "connect" /\ last.pre.is_connected =>
        /\ last.returned = last.pre.client
        /\ client = last.pre.client
        /\ is_connected
        /\ constructions = last.pre.constructions

C7_Witness ==
    /\ last.op = "connect"
    /\ last.pre.is_connected
    /\ last.pre.constructions = MaxHandles
    /\ last.returned = client

ConfiguredDimension ==
    IF "dimension" \in DOMAIN connection_data
    THEN connection_data["dimension"]
    ELSE PyInt(DefaultDimension)

\* C8: the vector dimension create_table sends in the schema is the optional
\* dimension setting, 8 when the setting is not supplied.
C8_SchemaDimensionIsSetting ==
    last.op = "create_table" =>
        \A i \in CallsOf("table.set_schema") :
            Get(last.calls[i].args.payload.columns[1].vector).dimension
                = ConfiguredDimension

StepFailed(call) == call.outcome # "ok"

\* C9: create_table issues the create call and then the schema call; a failure
\* of either step (a raise or an unsuccessful response) returns one error
\* result naming the table, a failure of the create step means the schema
\* call is never issued, and a failure of the schema step is followed by no
\* drop of the table.
C9_CreateThenSchema ==
    last.op = "create_table" =>
        /\ Len(last.calls) \in {1, 2}
        /\ last.calls[1].api = "table.create"
        /\ last.calls[1].args.table_name = last.table_name
        /\ IF StepFailed(last.calls[1])
           THEN /\ Len(last.calls) = 1
                /\ ReturnedError
                /\ InList(last.table_name, ErrorMessage)
           ELSE /\ Len(last.calls) = 2
                /\ last.calls[2].api = "table.set_schema"
                /\ last.calls[2].args.table_name = last.table_name
                /\ IF StepFailed(last.calls[2])
                   THEN ReturnedError /\ InList(last.table_name, ErrorMessage)
                   ELSE last.result = Returned(ResponseOK)
        /\ CallsOf("table.delete") = {}

\* C10: whenever the handler reports itself connected it holds a client
\* handle.
C10_ConnectedHasHandle == is_connected => client # NoClient

C10_Witness ==
    /\ last.op = "check_connection"
    /\ last.pre.is_connected
    /\ is_connected
    /\ client # NoClient
    /\ constructions = MaxHandles
====
